---- MODULE Spec2Model ----
(***************************************************************************)
(* Model of the ghost-edr enforcer's policy pipeline                       *)
(* (ghost_enforcer/policy_engine.py, config.py, daemon.py).                *)
(*                                                                         *)
(* Strings that the code matches with fnmatch or concatenates into a       *)
(* cooldown key are sequences of one-character strings.  An optional       *)
(* string field of FalcoAlert (container_id, container_name,               *)
(* container_image) that is None is the empty sequence: the engine reads   *)
(* these fields only behind a truthiness test, which None and "" both      *)
(* fail, and alert_parser._get_field never returns "".                     *)
(*                                                                         *)
(* Time is the value time.time() returns, seconds since the epoch, in      *)
(* abstract units; only its order and its differences to the configured    *)
(* windows matter to the code.  It starts at 0, so that it can be below a  *)
(* window (cooldown_seconds is any int of the YAML file, and a host whose  *)
(* clock is not set starts near the epoch), and it never runs backwards.   *)
(*                                                                         *)
(* One request is one run of EnforcerDaemon._handle_falco_alert.  asyncio  *)
(* runs a coroutine without interruption between two awaits, so the        *)
(* synchronous part of process_alert (up to `await handler.execute`) is    *)
(* one step and the part after the handler returns is another.             *)
(***************************************************************************)
EXTENDS Integers, Sequences, FiniteSets

VARIABLES
    config,     \* EnforcerConfig: dry_run, policies, excluded_containers,
                \* global_webhook_url
    actions,    \* PolicyEngine._actions: the action kinds with a handler
    metrics,    \* PolicyEngine.metrics (PolicyMetrics)
    cooldowns,  \* PolicyEngine._cooldowns: key -> time of last permitted action
    clock,      \* what time.time() returns now
    reqs,       \* per request: the coroutine's position and locals
    snapshot,   \* the dict a caller of get_metrics holds
    daemon,     \* EnforcerDaemon: constructed or not, the rules it was given,
                \* where run() stands, _runner, _shutdown_event, the
                \* shutdown() calls
    twin        \* a second PolicyEngine, in dry-run mode: metrics, _cooldowns

vars ==
    <<config, actions, metrics, cooldowns, clock, reqs, snapshot, daemon,
      twin>>

\* ---------------------------------------------------------------- bounds

\* Requests (alerts) one behaviour handles.
NReq == 2

\* The clock runs from 0 to MaxTime.
MaxTime == 4

\* Longest rule list of the matcher's specification.
MaxRules == 2

\* Calls of EnforcerDaemon.shutdown one behaviour makes.
NShutdown == 3

\* ------------------------------------------------------- config.py enums

ActionType == {"alert", "webhook"}

Priority ==
    {"emergency", "alert", "critical", "error",
     "warning", "notice", "informational", "debug"}

PRIORITY_ORDER(p) ==
    CASE p = "debug"         -> 0
      [] p = "informational" -> 1
      [] p = "notice"        -> 2
      [] p = "warning"       -> 3
      [] p = "error"         -> 4
      [] p = "critical"      -> 5
      [] p = "alert"         -> 6
      [] p = "emergency"     -> 7

\* str.lower() on the severity strings of the model.
lower(s) ==
    CASE s = "DEBUG"         -> "debug"
      [] s = "INFORMATIONAL" -> "informational"
      [] s = "NOTICE"        -> "notice"
      [] s = "WARNING"       -> "warning"
      [] s = "ERROR"         -> "error"
      [] s = "CRITICAL"      -> "critical"
      [] s = "ALERT"         -> "alert"
      [] s = "EMERGENCY"     -> "emergency"
      [] s = "Critical"      -> "critical"
      [] s = "BOGUS"         -> "bogus"
      [] OTHER               -> s

\* ------------------------------------------------------------- fnmatch

\* fnmatch.fnmatch(name, pat) on POSIX (normcase is the identity there):
\* '*' matches any run of characters, '?' exactly one, any other character
\* itself, and the whole name must match.  The model's patterns hold no '['.
RECURSIVE fnmatch(_, _)
fnmatch(name, pat) ==
    IF pat = <<>> THEN name = <<>>
    ELSE IF Head(pat) = "*"
         THEN fnmatch(name, Tail(pat))
              \/ (name # <<>> /\ fnmatch(Tail(name), pat))
    ELSE IF Head(pat) = "?"
         THEN name # <<>> /\ fnmatch(Tail(name), Tail(pat))
    ELSE name # <<>> /\ Head(name) = Head(pat)
         /\ fnmatch(Tail(name), Tail(pat))

\* any(fnmatch.fnmatch(name, pattern) for pattern in patterns)
any_fnmatch(name, patterns) ==
    \E i \in DOMAIN patterns : fnmatch(name, patterns[i])

\* ------------------------------------------------- policy_engine.py

\* An absent optional string (None).
None == <<>>

\* An unrecognized severity taken for the lowest level.
alert_priority_lowest(alert) ==
    IF lower(alert.priority) \in Priority
    THEN lower(alert.priority) ELSE "debug"

\* try: Priority(alert.priority.lower()) except ValueError: Priority.WARNING
alert_priority(alert) ==
    IF lower(alert.priority) \in Priority
    THEN lower(alert.priority) ELSE "warning"

\* The comparison with <= in place of <.
priority_above(alert, policy) ==
    ~(PRIORITY_ORDER(alert_priority(alert))
        <= PRIORITY_ORDER(policy.priority_min))

\* not (alert_order < policy_order)
priority_ok(alert, policy) ==
    ~(PRIORITY_ORDER(alert_priority(alert)) < PRIORITY_ORDER(policy.priority_min))

\* the rule-name patterns, if the policy has any
rule_ok(alert, policy) ==
    (policy.rule_patterns # <<>>)
        => any_fnmatch(alert.rule, policy.rule_patterns)

\* the container patterns, if the policy has any and the alert has a name
container_ok(alert, policy) ==
    (policy.container_patterns # <<>> /\ alert.container_name # None)
        => any_fnmatch(alert.container_name, policy.container_patterns)

\* the image patterns, if the policy has any and the alert has an image
image_ok(alert, policy) ==
    (policy.image_patterns # <<>> /\ alert.container_image # None)
        => any_fnmatch(alert.container_image, policy.image_patterns)

\* The policy's own exclusions never consulted.
exclusion_ignored(alert, policy) == TRUE

\* the policy's own exclusions
exclusion_ok(alert, policy) ==
    ~(policy.exclude_containers # <<>> /\ alert.container_name # None
      /\ any_fnmatch(alert.container_name, policy.exclude_containers))

_matches_policy(alert, policy) ==
    /\ priority_ok(alert, policy)
    /\ rule_ok(alert, policy)
    /\ container_ok(alert, policy)
    /\ image_ok(alert, policy)
    /\ exclusion_ok(alert, policy)

\* The value of alert.rule when the payload's "rule" was no string (null,
\* a number, a list, an object): a marker that is no sequence of
\* characters.
NotAStr == <<"not a str">>

\* fnmatch.fnmatch(alert.rule, pattern) raises TypeError on a rule that is
\* no str; _matches_policy calls it once the severity test has passed and
\* the rule has rule patterns.
rule_raises(alert, policy) ==
    /\ priority_ok(alert, policy)
    /\ policy.rule_patterns # <<>>
    /\ alert.rule = NotAStr

\* The loop of _find_matching_policy from rule i on: the index of the rule
\* it returns, 0 for None, -1 when _matches_policy raises.
RECURSIVE find_from(_, _, _)
find_from(alert, policies, i) ==
    IF i > Len(policies) THEN 0
    ELSE IF rule_raises(alert, policies[i]) THEN -1
    ELSE IF _matches_policy(alert, policies[i]) THEN i
    ELSE find_from(alert, policies, i + 1)

\* A loop that keeps the last match instead of returning the first.
RECURSIVE find_last_from(_, _, _)
find_last_from(alert, policies, i) ==
    IF i < 1 THEN 0
    ELSE IF _matches_policy(alert, policies[i]) THEN i
    ELSE find_last_from(alert, policies, i - 1)

find_last_match(alert, policies) ==
    find_last_from(alert, policies, Len(policies))

_find_matching_policy(alert, policies) == find_from(alert, policies, 1)

\* The name looked up in the list instead of matched against its patterns.
is_excluded_exact(alert, excluded_containers) ==
    \E i \in DOMAIN excluded_containers :
        alert.container_name = excluded_containers[i]

\* The patterns tried without the test for a missing name.
is_excluded_unguarded(alert, excluded_containers) ==
    any_fnmatch(alert.container_name, excluded_containers)

_is_excluded(alert, excluded_containers) ==
    IF alert.container_name = None THEN FALSE
    ELSE any_fnmatch(alert.container_name, excluded_containers)

\* key = f"{alert.container_id}:{policy.name}"
cooldown_key(alert, policy) == alert.container_id \o <<":">> \o policy.name

\* A lookup that never finds the entry.
last_action_missing(cd, key) == 0

\* self._cooldowns.get(key, 0)
last_action(cd, key) == IF key \in DOMAIN cd THEN cd[key] ELSE 0

\* The bypass without the test of the container id.
cooldown_bypassed_by_window(alert, policy) == policy.cooldown_seconds <= 0

\* _check_cooldown takes no part: no container id, or no window
cooldown_bypassed(alert, policy) ==
    alert.container_id = None \/ policy.cooldown_seconds <= 0

\* What _check_cooldown returns with the map cd at time now.
cooldown_allowed(alert, policy, cd, now) ==
    IF cooldown_bypassed(alert, policy) THEN TRUE
    ELSE ~(now - last_action(cd, cooldown_key(alert, policy))
              < policy.cooldown_seconds)

\* The time recorded on every check, suppressed or not.
cooldowns_always_recorded(alert, policy, cd, now) ==
    IF cooldown_bypassed(alert, policy) THEN cd
    ELSE LET key == cooldown_key(alert, policy) IN
         [k \in DOMAIN cd \cup {key} |-> IF k = key THEN now ELSE cd[k]]

\* The map rebuilt with the new entry alone on every allowed check.
cooldowns_forgetting(alert, policy, cd, now) ==
    IF cooldown_bypassed(alert, policy) THEN cd
    ELSE IF ~cooldown_allowed(alert, policy, cd, now) THEN cd
    ELSE [k \in {cooldown_key(alert, policy)} |-> now]

\* The time of an allowed action never recorded.
cooldowns_not_recorded(alert, policy, cd, now) == cd

\* self._cooldowns after _check_cooldown with the map cd at time now.
cooldowns_after(alert, policy, cd, now) ==
    IF cooldown_bypassed(alert, policy) THEN cd
    ELSE IF ~cooldown_allowed(alert, policy, cd, now) THEN cd
    ELSE LET key == cooldown_key(alert, policy) IN
         [k \in DOMAIN cd \cup {key} |-> IF k = key THEN now ELSE cd[k]]

\* --------------------------------------------------------- the inputs

Str1(a) == <<a>>
Str2(a, b) == <<a, b>>

\* A PolicyRule (config.py) with its webhook_url left at the default None;
\* description plays no part in the engine.
Rule(name, pmin, rps, cps, ips, exs, act, cd) ==
    [name |-> name, priority_min |-> pmin, rule_patterns |-> rps,
     container_patterns |-> cps, image_patterns |-> ips,
     exclude_containers |-> exs, action |-> act, cooldown_seconds |-> cd,
     webhook_url |-> None]

\* The fields of a FalcoAlert the engine reads.
Alert(rule, prio, cid, cname, cimage) ==
    [rule |-> rule, priority |-> prio, container_id |-> cid,
     container_name |-> cname, container_image |-> cimage]

\* str.upper() on the severity strings of the payloads.
upper(s) ==
    CASE s = "critical" -> "CRITICAL"
      [] s = "Critical" -> "CRITICAL"
      [] s = "error"    -> "ERROR"
      [] s = "Warning"  -> "WARNING"
      [] s = "notice"   -> "NOTICE"
      [] s = "bogus"    -> "BOGUS"
      [] OTHER          -> s

\* The values of a JSON member: absent, null, a number, a string.
JAbsent == [t |-> "absent", v |-> <<>>]
JNull == [t |-> "null", v |-> <<>>]
JNumber == [t |-> "number", v |-> <<>>]
JStr(s) == [t |-> "str", v |-> s]

\* The body of a POST: 'body' says whether it is a JSON object, another
\* JSON value ("array") or no JSON at all ("invalid"); an object has the
\* members rule and priority and output_fields ("object", nothing when
\* "absent", or "null") with the members container.id and container.name.
Payload(body, rule, priority, output_fields, id, name) ==
    [body |-> body, rule |-> rule, priority |-> priority,
     output_fields |-> output_fields, id |-> id, name |-> name]

\* _get_field: str() of the member when present and truthy, else None.
_get_field(output_fields, member) ==
    IF output_fields = "object" /\ member.t = "str" THEN member.v ELSE None

\* `await request.json()` and parse_falco_alert(data): the set of the
\* FalcoAlert returned, empty when an exception is raised: by json() on a
\* body that is no JSON, by data.get on a body that is no object, by
\* .upper() on a priority that is no string, by `key in output_fields` on
\* null.  The rule is taken as it comes, "Unknown" when absent.
parse_falco_alert(p) ==
    IF p.body # "object" THEN {}
    ELSE IF p.priority.t \in {"null", "number"} THEN {}
    ELSE IF p.output_fields = "null" THEN {}
    ELSE {Alert(CASE p.rule.t = "absent" ->
                        <<"U", "n", "k", "n", "o", "w", "n">>
                  [] p.rule.t = "str" -> p.rule.v
                  [] OTHER -> NotAStr,
                IF p.priority.t = "absent" THEN "WARNING"
                ELSE upper(p.priority.v),
                _get_field(p.output_fields, p.id),
                _get_field(p.output_fields, p.name),
                None)}

\* A first rule for critical alerts of rules "x...", not rate limited,
\* and a catch-all for warnings with a cooldown of 2.
RuleCrit ==
    Rule(Str1("c"), "critical", <<Str2("x", "*")>>, <<>>, <<>>, <<>>,
         "webhook", 0)
RuleWarn ==
    Rule(Str1("s"), "warning", <<>>, <<>>, <<>>, <<>>, "alert", 2)

\* A last rule that matches whatever RuleWarn matches and is never rate
\* limited: the matcher reaches it only if it goes on after RuleWarn.
RuleLast ==
    Rule(Str1("t"), "warning", <<>>, <<>>, <<>>, <<>>, "webhook", 0)

\* The configurations of the pipeline's specification.
Configs ==
    {[dry_run |-> d, policies |-> <<RuleCrit, RuleWarn, RuleLast>>,
      global_webhook_url |-> None,
      excluded_containers |-> <<Str2("g", "*")>>] : d \in BOOLEAN}

\* load_config: PolicyRule(**p) validates each rule of the file, its
\* action against ActionType and its priority_min against Priority.  The
\* set of the configuration returned: empty when pydantic raises its
\* ValidationError.
load_config(data) ==
    IF \A i \in DOMAIN data.policies :
          /\ data.policies[i].action \in ActionType
          /\ data.policies[i].priority_min \in Priority
    THEN {data}
    ELSE {}

\* The strings of default_policies: the prefix of its rule patterns and
\* its rule names.
GhostEDR == <<"G", "h", "o", "s", "t", " ", "E", "D", "R", " ", "-", " ">>

\* "Ghost EDR - <name>*"
GhostPattern(name) == GhostEDR \o name \o <<"*">>

\* default_policies(): critical-threats, high-threats, suspicious-activity
default_policies ==
    << Rule(<<"c", "r", "i", "t", "i", "c", "a", "l", "-", "t", "h", "r",
              "e", "a", "t", "s">>,
            "critical",
            << GhostPattern(<<"R", "e", "v", "e", "r", "s", "e", " ", "S",
                              "h", "e", "l", "l">>),
               GhostPattern(<<"C", "r", "y", "p", "t", "o", " ", "M", "i",
                              "n", "e", "r">>),
               GhostPattern(<<"C", "o", "n", "t", "a", "i", "n", "e", "r",
                              " ", "E", "s", "c", "a", "p", "e">>),
               GhostPattern(<<"N", "s", "e", "n", "t", "e", "r">>),
               GhostPattern(<<"K", "e", "r", "n", "e", "l", " ", "M", "o",
                              "d", "u", "l", "e">>),
               GhostPattern(<<"N", "e", "t", "c", "a", "t", " ", "R", "e",
                              "v", "e", "r", "s", "e", " ", "S", "h", "e",
                              "l", "l">>),
               GhostPattern(<<"D", "o", "w", "n", "l", "o", "a", "d", " ",
                              "a", "n", "d", " ", "E", "x", "e", "c", "u",
                              "t", "e">>),
               GhostPattern(<<"P", "r", "o", "c", "e", "s", "s", " ", "I",
                              "n", "j", "e", "c", "t", "i", "o", "n">>) >>,
            <<>>, <<>>, <<>>, "alert", 0),
       Rule(<<"h", "i", "g", "h", "-", "t", "h", "r", "e", "a", "t", "s">>,
            "error",
            << GhostPattern(<<"M", "i", "n", "i", "n", "g", " ", "P", "o",
                              "o", "l", " ", "C", "o", "n", "n", "e", "c",
                              "t", "i", "o", "n">>),
               GhostPattern(<<"M", "o", "u", "n", "t", " ", "i", "n", " ",
                              "P", "r", "i", "v", "i", "l", "e", "g", "e",
                              "d">>),
               GhostPattern(<<"S", "h", "e", "l", "l", " ", "S", "p", "a",
                              "w", "n", "e", "d", " ", "f", "r", "o", "m",
                              " ", "W", "e", "b">>),
               GhostPattern(<<"D", "o", "c", "k", "e", "r", " ", "S", "o",
                              "c", "k", "e", "t", " ", "A", "c", "c", "e",
                              "s", "s">>) >>,
            <<>>, <<>>, <<>>, "alert", 30),
       Rule(<<"s", "u", "s", "p", "i", "c", "i", "o", "u", "s", "-", "a",
              "c", "t", "i", "v", "i", "t", "y">>,
            "warning", <<>>, <<>>, <<>>, <<>>, "alert", 60) >>

\* The rule list always replaced by the defaults.
policies_always_default(policies) == default_policies

\* EnforcerDaemon.__init__: `if not config.policies:
\* config.policies = default_policies()`
policies_after_init(policies) ==
    IF policies = <<>> THEN default_policies ELSE policies

\* The alerts of the pipeline's specification: one per way through
\* process_alert, and two targets.
Alerts ==
    { Alert(Str2("x", "s"), "CRITICAL", Str1("a"), Str2("g", "1"), None),
      Alert(Str1("y"), "NOTICE", Str1("b"), Str1("g"), None),
      Alert(Str1("y"), "NOTICE", Str1("a"), Str1("w"), None),
      Alert(Str2("x", "s"), "CRITICAL", Str1("a"), Str1("w"), None),
      Alert(Str1("y"), "WARNING", Str1("a"), Str1("w"), None),
      Alert(Str1("y"), "WARNING", Str1("b"), Str1("w"), None),
      Alert(Str1("y"), "ERROR", None, None, None) }

\* ------------------------------------------------------------ the state

\* The locals of a request that has not arrived: no alert, no rule, no
\* delivery attempted, no response sent (status 0).
Idle ==
    [pc |-> "idle", alert |-> Alert(None, "", None, None, None),
     policy |-> 0, at |-> 0, exit |-> "none",
     sent_to |-> None, delivery |-> "none", status |-> 0]

Requests == 1 .. NReq

PolicyMetrics ==
    [alerts_received |-> 0, alerts_matched |-> 0,
     actions_executed |-> [k \in ActionType |-> 0],
     actions_skipped_cooldown |-> 0, actions_skipped_excluded |-> 0,
     actions_failed |-> 0]

\* The engine's dict handed out as it is.
same_dict(d) == [shared |-> TRUE, items |-> d]

\* dict(d): a new dict object with the items of d.
dict(d) == [shared |-> FALSE, items |-> d]

\* get_metrics with the two skipped counters read from the same field.
get_metrics_mixed(m) ==
    [alerts_received |-> m.alerts_received,
     alerts_matched |-> m.alerts_matched,
     actions_executed |-> [shared |-> FALSE, items |-> m.actions_executed],
     actions_skipped_cooldown |-> m.actions_skipped_excluded,
     actions_skipped_excluded |-> m.actions_skipped_excluded,
     actions_failed |-> m.actions_failed]

\* What get_metrics returns for the metrics m: a new dict of the five
\* numbers and a copy of actions_executed.
get_metrics_dict(m) ==
    [alerts_received |-> m.alerts_received,
     alerts_matched |-> m.alerts_matched,
     actions_executed |-> dict(m.actions_executed),
     actions_skipped_cooldown |-> m.actions_skipped_cooldown,
     actions_skipped_excluded |-> m.actions_skipped_excluded,
     actions_failed |-> m.actions_failed]

\* No caller holds a result of get_metrics yet.
NoSnapshot ==
    [held |-> FALSE, touched |-> FALSE, value |-> get_metrics_dict(PolicyMetrics)]

\* The daemon constructed with the rule list it was given kept: the list
\* was not empty.
\* The calls of shutdown(): call 1 is the one of the CLI's finally block,
\* the others are tasks the signal handler created.
Calls == 1 .. NShutdown

\* An EnforcerDaemon before run(): _runner is None, _shutdown_event is
\* clear, no cleanup of the runner was started and no shutdown() called.
NewDaemon(constructed, given) ==
    [constructed |-> constructed, given |-> given,
     run |-> "new", runner |-> FALSE, event |-> FALSE, cleanups |-> 0,
     shutdowns |-> [c \in Calls |-> "idle"]]

Constructed == daemon = NewDaemon(TRUE, config.policies)

\* PolicyEngine.__init__
EngineInit ==
    /\ actions = {}
    /\ metrics = PolicyMetrics
    /\ cooldowns = [k \in {} |-> 0]
    /\ clock = 0
    /\ reqs = [r \in Requests |-> Idle]
    /\ snapshot = NoSnapshot
    /\ twin = [metrics |-> PolicyMetrics, cooldowns |-> [k \in {} |-> 0]]

Init ==
    /\ config \in Configs
    /\ Constructed
    /\ EngineInit

\* ---------------------------------------------------------- the actions

set_runtime ==
    /\ daemon.constructed
    /\ actions = {}
    /\ actions' = {"alert", "webhook"}
    /\ UNCHANGED <<config, metrics, cooldowns, clock, reqs, snapshot, daemon, twin>>

\* Time passes.
Tick ==
    /\ clock < MaxTime
    /\ clock' = clock + 1
    /\ UNCHANGED <<config, actions, metrics, cooldowns, reqs, snapshot, daemon, twin>>

\* self.metrics.<field> += 1
Inc(m, f) == [m EXCEPT ![f] = @ + 1]

\* The executed count written as 1 instead of raised by 1.
executed_overwritten(m, kind) == [m EXCEPT !.actions_executed[kind] = 1]

\* self.metrics.actions_executed[action_type.value] += 1
IncExecuted(m, kind) == [m EXCEPT !.actions_executed[kind] = @ + 1]

\* An unmatched alert counted as matched.
no_match_counted(m) == Inc(m, "alerts_matched")

\* The metrics when no rule matches (`if not policy: return`).
no_match_metrics(m) == m

\* _execute_action without the dry-run branch.
execute_action_always_live(policy, m, dry_run, handlers) ==
    IF policy.action \notin handlers
    THEN [exit |-> "no_handler", metrics |-> m]
    ELSE [exit |-> "none", metrics |-> m]

\* _execute_action counting a missing handler as a failed action.
execute_action_missing_failed(policy, m, dry_run, handlers) ==
    IF dry_run
    THEN [exit |-> "dry_run", metrics |-> IncExecuted(m, policy.action)]
    ELSE IF policy.action \notin handlers
    THEN [exit |-> "no_handler", metrics |-> Inc(m, "actions_failed")]
    ELSE [exit |-> "none", metrics |-> m]

\* _execute_action up to `await handler.execute`, for the rule 'policy'
\* with the metrics m: the way out ("none" when the handler is invoked and
\* the coroutine suspends) and the metrics.
_execute_action_sync(policy, m, dry_run, handlers) ==
    IF dry_run
    THEN [exit |-> "dry_run", metrics |-> IncExecuted(m, policy.action)]
    ELSE IF policy.action \notin handlers
    THEN [exit |-> "no_handler", metrics |-> m]
    ELSE [exit |-> "none", metrics |-> m]

\* An engine whose dry-run mode leaves the cooldown map alone.
process_alert_dry_unarmed(cfg, handlers, m, cd, alert, now) ==
    LET m1 == Inc(m, "alerts_received")
        i == _find_matching_policy(alert, cfg.policies)
        policy == cfg.policies[i]
        m2 == Inc(m1, "alerts_matched")
        ex == _execute_action_sync(policy, m2, cfg.dry_run, handlers)
    IN  IF _is_excluded(alert, cfg.excluded_containers)
        THEN [policy |-> 0, exit |-> "excluded", cooldowns |-> cd,
              metrics |-> Inc(m1, "actions_skipped_excluded")]
        ELSE IF i = -1
        THEN [policy |-> 0, exit |-> "error", cooldowns |-> cd,
              metrics |-> m1]
        ELSE IF i = 0
        THEN [policy |-> 0, exit |-> "no_match", cooldowns |-> cd,
              metrics |-> no_match_metrics(m1)]
        ELSE IF ~cooldown_allowed(alert, policy, cd, now)
        THEN [policy |-> i, exit |-> "cooldown",
              cooldowns |-> cooldowns_after(alert, policy, cd, now),
              metrics |-> Inc(m2, "actions_skipped_cooldown")]
        ELSE [policy |-> i, exit |-> ex.exit,
              cooldowns |-> IF cfg.dry_run THEN cd
                            ELSE cooldowns_after(alert, policy, cd, now),
              metrics |-> ex.metrics]

\* process_alert of an engine with the configuration cfg, the handlers
\* 'handlers', the metrics m and the cooldown map cd, up to its first
\* suspension or its return, for the alert 'alert' at time 'now': the
\* matched rule, the way out ("none" while the handler runs, "error" when
\* the matcher raised) and the engine's state.
process_alert_on(cfg, handlers, m, cd, alert, now) ==
    LET m1 == Inc(m, "alerts_received")
        i == _find_matching_policy(alert, cfg.policies)
        policy == cfg.policies[i]
        m2 == Inc(m1, "alerts_matched")
        ex == _execute_action_sync(policy, m2, cfg.dry_run, handlers)
    IN  IF _is_excluded(alert, cfg.excluded_containers)
        THEN [policy |-> 0, exit |-> "excluded", cooldowns |-> cd,
              metrics |-> Inc(m1, "actions_skipped_excluded")]
        ELSE IF i = -1
        THEN [policy |-> 0, exit |-> "error", cooldowns |-> cd,
              metrics |-> m1]
        ELSE IF i = 0
        THEN [policy |-> 0, exit |-> "no_match", cooldowns |-> cd,
              metrics |-> no_match_metrics(m1)]
        ELSE IF ~cooldown_allowed(alert, policy, cd, now)
        THEN [policy |-> i, exit |-> "cooldown",
              cooldowns |-> cooldowns_after(alert, policy, cd, now),
              metrics |-> Inc(m2, "actions_skipped_cooldown")]
        ELSE [policy |-> i, exit |-> ex.exit,
              cooldowns |-> cooldowns_after(alert, policy, cd, now),
              metrics |-> ex.metrics]

\* process_alert going on to the next matching rule when the first one
\* is in cooldown.
process_alert_next_rule(alert, now) ==
    LET m1 == Inc(metrics, "alerts_received")
        i == _find_matching_policy(alert, config.policies)
        m2 == Inc(m1, "alerts_matched")
        j == IF i = 0 THEN 0
             ELSE IF cooldown_allowed(alert, config.policies[i],
                                      cooldowns, now) THEN i
             ELSE find_from(alert, config.policies, i + 1)
        policy == config.policies[j]
        ex == _execute_action_sync(policy, m2, config.dry_run, actions)
    IN  IF _is_excluded(alert, config.excluded_containers)
        THEN [policy |-> 0, exit |-> "excluded", cooldowns |-> cooldowns,
              metrics |-> Inc(m1, "actions_skipped_excluded")]
        ELSE IF i = 0
        THEN [policy |-> 0, exit |-> "no_match", cooldowns |-> cooldowns,
              metrics |-> no_match_metrics(m1)]
        ELSE IF j = 0 \/ ~cooldown_allowed(alert, policy, cooldowns, now)
        THEN [policy |-> i, exit |-> "cooldown", cooldowns |-> cooldowns,
              metrics |-> Inc(m2, "actions_skipped_cooldown")]
        ELSE [policy |-> j, exit |-> ex.exit,
              cooldowns |-> cooldowns_after(alert, policy, cooldowns, now),
              metrics |-> ex.metrics]

\* The cooldown entry written only for an alert whose action kind has a
\* handler (or in dry-run mode).
process_alert_arm_on_dispatch(alert, now) ==
    LET m1 == Inc(metrics, "alerts_received")
        i == _find_matching_policy(alert, config.policies)
        policy == config.policies[i]
        m2 == Inc(m1, "alerts_matched")
        ex == _execute_action_sync(policy, m2, config.dry_run, actions)
    IN  IF _is_excluded(alert, config.excluded_containers)
        THEN [policy |-> 0, exit |-> "excluded", cooldowns |-> cooldowns,
              metrics |-> Inc(m1, "actions_skipped_excluded")]
        ELSE IF i = -1
        THEN [policy |-> 0, exit |-> "error", cooldowns |-> cooldowns,
              metrics |-> m1]
        ELSE IF i = 0
        THEN [policy |-> 0, exit |-> "no_match", cooldowns |-> cooldowns,
              metrics |-> no_match_metrics(m1)]
        ELSE IF ~cooldown_allowed(alert, policy, cooldowns, now)
        THEN [policy |-> i, exit |-> "cooldown",
              cooldowns |-> cooldowns_after(alert, policy, cooldowns, now),
              metrics |-> Inc(m2, "actions_skipped_cooldown")]
        ELSE [policy |-> i, exit |-> ex.exit,
              cooldowns |-> IF ex.exit = "no_handler" THEN cooldowns
                            ELSE cooldowns_after(alert, policy, cooldowns,
                                                 now),
              metrics |-> ex.metrics]

\* Where process_alert of the engine of this process stands when it first
\* suspends or returns.
process_alert_sync(alert, now) ==
    process_alert_on(config, actions, metrics, cooldowns, alert, now)

\* The response of _handle_falco_alert once process_alert is over: 200
\* when it returned, 500 when an exception reached `except Exception`.
response_status(exit) ==
    IF exit \in {"parse_error", "error"} THEN 500 ELSE 200

\* A request arrives with the alert 'alert': process_alert runs until it
\* returns or awaits the handler; what it does to the engine.
process_alert_engine(r, alert) ==
    /\ daemon.constructed
    /\ reqs[r].pc = "idle"
    /\ IF r = 1 THEN TRUE ELSE reqs[r - 1].pc # "idle"
    /\ LET res == process_alert_sync(alert, clock) IN
        /\ metrics' = res.metrics
        /\ cooldowns' = res.cooldowns
        /\ reqs' = [reqs EXCEPT ![r] =
                      [pc |-> IF res.exit = "none" THEN "await" ELSE "done",
                       alert |-> alert, policy |-> res.policy,
                       at |-> clock, exit |-> res.exit,
                       sent_to |-> None, delivery |-> "none",
                       status |-> IF res.exit = "none" THEN 0
                                  ELSE response_status(res.exit)]]
    /\ UNCHANGED <<config, actions, clock, snapshot, daemon>>

\* The same with no second engine fed.
process_alert(r, alert) ==
    /\ process_alert_engine(r, alert)
    /\ UNCHANGED twin

\* What `await handler.execute(alert, policy)` can end in: AlertAction
\* returns True, WebhookAction True or False, and _execute_action also
\* provides for an exception escaping the handler.
HandlerOutcomes(kind) ==
    IF kind = "alert" THEN {"success", "raise"}
    ELSE {"success", "failure", "raise"}

\* Every handler outcome counted as an executed action.
metrics_all_executed(m, kind, outcome) == IncExecuted(m, kind)

\* An exception of the handler left uncounted.
metrics_raise_uncounted(m, kind, outcome) ==
    IF outcome = "success" THEN IncExecuted(m, kind)
    ELSE IF outcome = "failure" THEN Inc(m, "actions_failed")
    ELSE m

\* A failure of the handler counted as failed and as executed.
metrics_failure_twice(m, kind, outcome) ==
    IF outcome = "success" THEN IncExecuted(m, kind)
    ELSE IF outcome = "failure"
         THEN IncExecuted(Inc(m, "actions_failed"), kind)
    ELSE Inc(m, "actions_failed")

\* The metrics after the handler of kind 'kind' ended in 'outcome'.
metrics_after_handler(m, kind, outcome) ==
    IF outcome = "success" THEN IncExecuted(m, kind)
    ELSE Inc(m, "actions_failed")

\* A handler that returned failure invoked again.
pc_retry_on_failure(outcome) ==
    IF outcome = "failure" THEN "await" ELSE "done"

\* Where the coroutine stands after the try/except around the handler
\* call: _execute_action and process_alert return.
pc_after_handler(outcome) == "done"

\* The branch of _execute_action an outcome of the handler takes.
exit_after_handler(outcome) ==
    CASE outcome = "success" -> "executed"
      [] outcome = "failure" -> "failed"
      [] OTHER -> "raised"

\* The handler of request r ends and _execute_action records the outcome.
handler_returns(r, outcome) ==
    /\ reqs[r].pc = "await"
    /\ LET kind == config.policies[reqs[r].policy].action IN
        /\ outcome \in HandlerOutcomes(kind)
        /\ metrics' = metrics_after_handler(metrics, kind, outcome)
    /\ reqs' = [reqs EXCEPT ![r].pc = pc_after_handler(outcome),
                            ![r].exit = exit_after_handler(outcome),
                            ![r].status =
                                response_status(exit_after_handler(outcome))]
    /\ UNCHANGED <<config, actions, cooldowns, clock, snapshot, daemon, twin>>

\* What the POST of the webhook can end in: a response with a 2xx status,
\* a response with another status, the 10 second ClientTimeout, or any
\* other exception of the session.
Deliveries == {"2xx", "non2xx", "timeout", "error"}

\* The process-wide default preferred to the rule's own destination.
webhook_global_first(policy, cfg, delivery) ==
    LET url == IF cfg.global_webhook_url # None
               THEN cfg.global_webhook_url ELSE policy.webhook_url
    IN  IF url = None
        THEN [outcome |-> "failure", url |-> None, delivery |-> "none"]
        ELSE [outcome |-> IF delivery = "2xx" THEN "success" ELSE "failure",
              url |-> url, delivery |-> delivery]

\* WebhookAction.execute: the destination is `policy.webhook_url or
\* config.global_webhook_url`; without one it returns False before any
\* request; a 2xx response returns True, any other response and any
\* exception inside the try returns False.
WebhookAction_execute(policy, cfg, delivery) ==
    LET url == IF policy.webhook_url # None
               THEN policy.webhook_url ELSE cfg.global_webhook_url
    IN  IF url = None
        THEN [outcome |-> "failure", url |-> None, delivery |-> "none"]
        ELSE [outcome |-> IF delivery = "2xx" THEN "success" ELSE "failure",
              url |-> url, delivery |-> delivery]

\* The webhook handler of request r ends after the delivery 'delivery' and
\* _execute_action records what it returned.
webhook_returns(r, delivery) ==
    /\ reqs[r].pc = "await"
    /\ LET policy == config.policies[reqs[r].policy]
           res == WebhookAction_execute(policy, config, delivery)
       IN  /\ policy.action = "webhook"
           /\ metrics' = metrics_after_handler(metrics, "webhook",
                                               res.outcome)
           /\ reqs' = [reqs EXCEPT
                         ![r].pc = pc_after_handler(res.outcome),
                         ![r].exit = exit_after_handler(res.outcome),
                         ![r].sent_to = res.url,
                         ![r].delivery = res.delivery,
                         ![r].status =
                             response_status(exit_after_handler(res.outcome))]
    /\ UNCHANGED <<config, actions, cooldowns, clock, snapshot, daemon, twin>>

\* A caller reads the metrics and keeps the dict returned.
get_metrics ==
    /\ snapshot' = [held |-> TRUE, touched |-> FALSE,
                    value |-> get_metrics_dict(metrics)]
    /\ UNCHANGED <<config, actions, metrics, cooldowns, clock, reqs, daemon, twin>>

\* The caller writes into the dict it holds: it resets one of the
\* numbers, or an entry of the actions_executed dict, which is the
\* engine's own when that dict is shared.
caller_resets(f) ==
    /\ snapshot.held
    /\ IF f \in ActionType
       THEN /\ snapshot' = [snapshot EXCEPT
                   !.touched = TRUE,
                   !.value.actions_executed.items[f] = 0]
            /\ metrics' = IF snapshot.value.actions_executed.shared
                          THEN [metrics EXCEPT !.actions_executed[f] = 0]
                          ELSE metrics
       ELSE /\ snapshot' = [snapshot EXCEPT !.touched = TRUE,
                                            !.value[f] = 0]
            /\ metrics' = metrics
    /\ UNCHANGED <<config, actions, cooldowns, clock, reqs, daemon, twin>>

Next ==
    \/ set_runtime
    \/ Tick
    \/ \E r \in Requests, alert \in Alerts : process_alert(r, alert)
    \/ \E r \in Requests, o \in {"success", "failure", "raise"} :
          handler_returns(r, o)

Spec == Init /\ [][Next]_vars

\* ------------------------------------------- the metrics' specification

\* The entries of the returned dict a caller writes to.
CallerWrites == {"alerts_received"} \cup ActionType

\* The pipeline at one instant, with callers of get_metrics.
MetricsNext ==
    \/ set_runtime
    \/ \E r \in Requests, alert \in Alerts : process_alert(r, alert)
    \/ \E r \in Requests, o \in {"success", "failure", "raise"} :
          handler_returns(r, o)
    \/ get_metrics
    \/ \E f \in CallerWrites : caller_resets(f)

MetricsSpec == Init /\ [][MetricsNext]_vars

\* --------------------------------------- the cooldown keys' specification

\* Two rate-limited rules, one with a colon in its name.
KeyRuleA ==
    Rule(<<"b", ":", "c">>, "error", <<>>, <<>>, <<>>, <<>>, "alert", 2)
KeyRuleB ==
    Rule(Str1("c"), "warning", <<>>, <<>>, <<>>, <<>>, "alert", 2)

KeyConfigs ==
    {[dry_run |-> d, policies |-> <<KeyRuleA, KeyRuleB>>,
      global_webhook_url |-> None,
      excluded_containers |-> <<>>] : d \in BOOLEAN}

\* Alerts of the containers "a" and "a:b".
KeyAlerts ==
    { Alert(Str1("y"), "ERROR", Str1("a"), Str1("w"), None),
      Alert(Str1("y"), "WARNING", Str1("a"), Str1("w"), None),
      Alert(Str1("y"), "WARNING", <<"a", ":", "b">>, Str1("w"), None) }

\* The engine after construction, at a time not before the rules' window.
KeyInit ==
    /\ config \in KeyConfigs
    /\ Constructed
    /\ actions = {}
    /\ metrics = PolicyMetrics
    /\ cooldowns = [k \in {} |-> 0]
    /\ clock = KeyRuleA.cooldown_seconds
    /\ reqs = [r \in Requests |-> Idle]
    /\ snapshot = NoSnapshot
    /\ twin = [metrics |-> PolicyMetrics, cooldowns |-> [k \in {} |-> 0]]

KeyNext ==
    \/ set_runtime
    \/ Tick
    \/ \E r \in Requests, alert \in KeyAlerts : process_alert(r, alert)
    \/ \E r \in Requests, o \in {"success", "failure", "raise"} :
          handler_returns(r, o)

KeySpec == KeyInit /\ [][KeyNext]_vars

\* ------------------------------------------- the matcher's specification

\* Severity strings as the parser hands them over (upper case), one in
\* mixed case and one that names no level.
ProbePriorities ==
    {"DEBUG", "INFORMATIONAL", "NOTICE", "WARNING", "ERROR", "CRITICAL",
     "ALERT", "EMERGENCY", "Critical", "BOGUS"}

ProbeNames == {None, Str2("w", "1"), Str1("g")}
ProbeImages == {None, Str1("n"), Str1("m")}

\* Every severity on one alert, and every combination of rule name,
\* container name and image at two severities.
ProbeAlerts ==
    {Alert(Str2("x", "1"), p, Str1("a"), n, Str1("n")) :
        p \in ProbePriorities, n \in {None, Str2("w", "1")}}
    \cup
    {Alert(rn, p, Str1("a"), n, im) :
        rn \in {Str2("x", "1"), Str1("y")}, p \in {"NOTICE", "ERROR"},
        n \in ProbeNames, im \in ProbeImages}

\* A rule of minimum severity warning with the given pattern lists.
ProbeRule(rps, cps, ips, exs) ==
    Rule(Str1("p"), "warning", rps, cps, ips, exs, "alert", 0)

\* Rules without patterns at every minimum severity, and rules with one
\* pattern list, with two, and with all four.
ProbeRules ==
    {Rule(Str1("p"), pm, <<>>, <<>>, <<>>, <<>>, "alert", 0) :
        pm \in Priority}
    \cup
    { ProbeRule(<<Str2("x", "*")>>, <<>>, <<>>, <<>>),
      ProbeRule(<<>>, <<Str2("w", "*")>>, <<>>, <<>>),
      ProbeRule(<<>>, <<Str1("g"), Str2("w", "?")>>, <<>>, <<>>),
      ProbeRule(<<>>, <<>>, <<Str1("n")>>, <<>>),
      ProbeRule(<<>>, <<>>, <<>>, <<Str2("g", "*")>>),
      ProbeRule(<<>>, <<Str2("?", "*")>>, <<>>, <<Str2("w", "*")>>),
      ProbeRule(<<Str2("x", "*")>>, <<Str2("w", "*")>>, <<Str1("n")>>,
                <<Str2("g", "*")>>) }

\* The rule lists of 1 .. MaxRules rules.
ProbePolicies ==
    UNION {[1 .. n -> ProbeRules] : n \in 1 .. MaxRules}

\* Every rule list, without global exclusions and with the pattern '*'.
ProbeConfigs ==
    {[dry_run |-> TRUE, policies |-> ps, global_webhook_url |-> None,
      excluded_containers |-> ex] :
        ps \in ProbePolicies, ex \in {<<>>, <<Str1("*")>>}}

MatchInit ==
    /\ config \in ProbeConfigs
    /\ Constructed
    /\ EngineInit

MatchNext == \E alert \in ProbeAlerts : process_alert(1, alert)

MatchSpec == MatchInit /\ [][MatchNext]_vars

\* ------------------------------------------- the daemon's specification

\* EnforcerDaemon.__init__ on the configuration it is given: the engine
\* is created on the same configuration object, whose rule list is then
\* replaced if it is empty.
EnforcerDaemon_init ==
    /\ ~daemon.constructed
    /\ config' = [config EXCEPT !.policies = policies_after_init(@)]
    /\ daemon' = [daemon EXCEPT !.constructed = TRUE]
    /\ UNCHANGED <<actions, metrics, cooldowns, clock, reqs, snapshot, twin>>

\* A rule list of one's own: errors of rules "y...".
RuleOwn ==
    Rule(Str1("o"), "error", <<Str2("y", "*")>>, <<>>, <<>>, <<>>,
         "alert", 0)

\* Configurations without rules and with a rule list, with the default
\* exclusion list ["ghost-mole"].
DaemonConfigs ==
    {[dry_run |-> d, policies |-> ps,
      global_webhook_url |-> None,
      excluded_containers |->
          << <<"g", "h", "o", "s", "t", "-", "m", "o", "l", "e">> >>] :
        d \in BOOLEAN, ps \in {<<>>, <<RuleOwn>>}}

\* Alerts of two rules the defaults name, and of another, at every
\* severity, of a container and of the excluded one.
DaemonAlerts ==
    {Alert(rule, prio, Str1("a"), name, None) :
        rule \in {GhostEDR \o <<"N", "s", "e", "n", "t", "e", "r">>,
                  GhostEDR \o <<"D", "o", "c", "k", "e", "r", " ", "S", "o",
                               "c", "k", "e", "t", " ", "A", "c", "c", "e",
                               "s", "s", " ", "1">>,
                  Str2("y", "s")},
        prio \in ProbePriorities,
        name \in {Str1("w"),
                  <<"g", "h", "o", "s", "t", "-", "m", "o", "l", "e">>}}

\* Before the daemon is constructed.
DaemonInit ==
    /\ config \in DaemonConfigs
    /\ daemon = NewDaemon(FALSE, config.policies)
    /\ EngineInit

DaemonNext ==
    \/ EnforcerDaemon_init
    \/ set_runtime
    \/ \E alert \in DaemonAlerts : process_alert(1, alert)
    \/ \E o \in {"success", "failure", "raise"} : handler_returns(1, o)

DaemonSpec == DaemonInit /\ [][DaemonNext]_vars

\* ------------------------------------------------ the webhook handler

\* A pattern-free webhook rule of minimum severity warning without
\* cooldown, with the destination 'url' of its own.
RuleHook(url) ==
    [Rule(Str1("h"), "warning", <<>>, <<>>, <<>>, <<>>, "webhook", 0)
        EXCEPT !.webhook_url = url]

\* The destinations: none (None, as is the empty string for `or`) or one
\* URL, "u" for a rule and "g" for the process.
WebhookConfigs ==
    {[dry_run |-> d, policies |-> <<RuleHook(u)>>,
      global_webhook_url |-> g,
      excluded_containers |-> <<>>] :
        d \in BOOLEAN, u \in {None, Str1("u")}, g \in {None, Str1("g")}}

WebhookAlerts ==
    {Alert(Str1("y"), "WARNING", Str1("a"), Str1("w"), None),
     Alert(Str1("y"), "ERROR", Str1("b"), Str1("w"), None),
     Alert(Str1("y"), "NOTICE", Str1("a"), Str1("w"), None)}

WebhookInit ==
    /\ config \in WebhookConfigs
    /\ Constructed
    /\ EngineInit

WebhookNext ==
    \/ set_runtime
    \/ \E r \in Requests, alert \in WebhookAlerts : process_alert(r, alert)
    \/ \E r \in Requests, delivery \in Deliveries :
          webhook_returns(r, delivery)

WebhookSpec == WebhookInit /\ [][WebhookNext]_vars

\* ------------------------------------------------ dry run beside live

\* The alert given to the live engine of this process is given at the
\* same time to a second engine with the same rules and exclusions in
\* dry-run mode.
process_alert_both(r, alert) ==
    /\ process_alert_engine(r, alert)
    /\ LET res == process_alert_on([config EXCEPT !.dry_run = TRUE], {},
                                   twin.metrics, twin.cooldowns, alert, clock)
       IN  twin' = [metrics |-> res.metrics, cooldowns |-> res.cooldowns]

\* The engine of the process is the live one.
TwinInit ==
    /\ config \in {c \in Configs : ~c.dry_run}
    /\ Constructed
    /\ EngineInit

TwinNext ==
    \/ set_runtime
    \/ Tick
    \/ \E r \in Requests, alert \in Alerts : process_alert_both(r, alert)
    \/ \E r \in Requests, outcome \in {"success", "failure", "raise"} :
          handler_returns(r, outcome)

TwinSpec == TwinInit /\ [][TwinNext]_vars

\* ------------------------------------------------ run and shutdown

\* run() up to its first await: the runtime is detected, the engine gets
\* its handlers and _start_http_receiver assigns _runner.
run_starts ==
    /\ daemon.constructed
    /\ daemon.run = "new"
    /\ actions' = {"alert", "webhook"}
    /\ daemon' = [daemon EXCEPT !.run = "starting", !.runner = TRUE]
    /\ UNCHANGED <<config, metrics, cooldowns, clock, reqs, snapshot, twin>>

\* run() raises: detect_container_runtime before anything is set, or
\* _runner.setup() / site.start() with _runner assigned.
run_fails ==
    /\ daemon.constructed
    /\ daemon.run \in {"new", "starting"}
    /\ daemon' = [daemon EXCEPT !.run = "failed"]
    /\ UNCHANGED <<config, actions, metrics, cooldowns, clock, reqs,
                   snapshot, twin>>

\* The site is started and run() reaches `await _shutdown_event.wait()`.
run_listens ==
    /\ daemon.run = "starting"
    /\ daemon' = [daemon EXCEPT !.run = "waiting"]
    /\ UNCHANGED <<config, actions, metrics, cooldowns, clock, reqs,
                   snapshot, twin>>

\* The event is set and run() returns.
run_returns ==
    /\ daemon.run = "waiting"
    /\ daemon.event
    /\ daemon' = [daemon EXCEPT !.run = "returned"]
    /\ UNCHANGED <<config, actions, metrics, cooldowns, clock, reqs,
                   snapshot, twin>>

\* When call c of shutdown() can take a step: the finally block runs once
\* run() is over; a task of the signal handler exists once the loop runs
\* run() and steps until the loop is closed after the finally block.
loop_runs(c) ==
    IF c = 1 THEN daemon.run \in {"returned", "failed"}
    ELSE daemon.run # "new" /\ daemon.shutdowns[1] # "done"

\* shutdown() up to its await or its return: it returns at once when the
\* event is set, starts the runner's cleanup when there is a runner, and
\* otherwise sets the event.
shutdown_begins(c) ==
    /\ daemon.shutdowns[c] = "idle"
    /\ loop_runs(c)
    /\ daemon' =
          IF daemon.event
          THEN [daemon EXCEPT !.shutdowns[c] = "done"]
          ELSE IF daemon.runner
          THEN [daemon EXCEPT !.shutdowns[c] = "cleanup",
                              !.cleanups = @ + 1]
          ELSE [daemon EXCEPT !.shutdowns[c] = "done", !.event = TRUE]
    /\ UNCHANGED <<config, actions, metrics, cooldowns, clock, reqs,
                   snapshot, twin>>

\* `await self._runner.cleanup()` is over and shutdown() sets the event.
shutdown_ends(c) ==
    /\ daemon.shutdowns[c] = "cleanup"
    /\ loop_runs(c)
    /\ daemon' = [daemon EXCEPT !.shutdowns[c] = "done", !.event = TRUE]
    /\ UNCHANGED <<config, actions, metrics, cooldowns, clock, reqs,
                   snapshot, twin>>

ShutdownInit ==
    /\ config \in Configs
    /\ Constructed
    /\ EngineInit

ShutdownNext ==
    \/ run_starts
    \/ run_fails
    \/ run_listens
    \/ run_returns
    \/ \E c \in Calls : shutdown_begins(c)
    \/ \E c \in Calls : shutdown_ends(c)

ShutdownSpec == ShutdownInit /\ [][ShutdownNext]_vars

\* ------------------------------------------------ the ingestion endpoint

\* POST /falco: the body is read and parsed and the alert goes through
\* process_alert, all inside one try; an exception of the parse answers
\* 500 before the engine is entered.
_handle_falco_alert(r, payload) ==
    IF parse_falco_alert(payload) = {}
    THEN /\ daemon.constructed
         /\ reqs[r].pc = "idle"
         /\ IF r = 1 THEN TRUE ELSE reqs[r - 1].pc # "idle"
         /\ reqs' = [reqs EXCEPT ![r] =
                       [Idle EXCEPT !.pc = "done", !.at = clock,
                                    !.exit = "parse_error",
                                    !.status =
                                        response_status("parse_error")]]
         /\ UNCHANGED <<config, actions, metrics, cooldowns, clock,
                        snapshot, daemon, twin>>
    ELSE \E alert \in parse_falco_alert(payload) : process_alert(r, alert)

\* Bodies that fail to parse, bodies of well-typed alerts for every way
\* out of the engine, and bodies whose rule is null or a number.
Payloads ==
    { Payload("invalid", JAbsent, JAbsent, "absent", JAbsent, JAbsent),
      Payload("array", JAbsent, JAbsent, "absent", JAbsent, JAbsent),
      Payload("object", JStr(Str1("y")), JNumber, "object",
              JAbsent, JAbsent),
      Payload("object", JStr(Str1("y")), JStr("error"), "null",
              JAbsent, JAbsent),
      Payload("object", JStr(Str2("x", "s")), JStr("Critical"), "object",
              JStr(Str1("a")), JStr(Str2("g", "1"))),
      Payload("object", JStr(Str1("y")), JStr("notice"), "object",
              JStr(Str1("a")), JStr(Str1("w"))),
      Payload("object", JStr(Str2("x", "s")), JStr("Critical"), "object",
              JStr(Str1("a")), JStr(Str1("w"))),
      Payload("object", JAbsent, JAbsent, "object",
              JStr(Str1("a")), JStr(Str1("w"))),
      Payload("object", JNull, JStr("Warning"), "object",
              JStr(Str1("b")), JStr(Str1("w"))),
      Payload("object", JNumber, JStr("critical"), "absent",
              JAbsent, JAbsent) }

TransportInit ==
    /\ config \in Configs
    /\ Constructed
    /\ EngineInit

TransportNext ==
    \/ set_runtime
    \/ Tick
    \/ \E r \in Requests, payload \in Payloads :
          _handle_falco_alert(r, payload)
    \/ \E r \in Requests, outcome \in {"success", "failure", "raise"} :
          handler_returns(r, outcome)

TransportSpec == TransportInit /\ [][TransportNext]_vars


\* ----------------------------------------------------------- the claims

\* Request r has arrived: process_alert has run for its alert.
Arrived(r) == reqs[r].pc # "idle"

\* The rule process_alert matched for request r (r's local `policy`).
PolicyOf(r) == config.policies[reqs[r].policy]

\* C1: the matcher returns the first rule, in declaration order, that the
\* alert matches: the rule it returns matches and no rule declared before
\* it does, and it returns none only when no rule of the list matches.
C1_OrderPrecedence ==
    \A r \in Requests :
        (Arrived(r) /\ reqs[r].exit # "excluded") =>
            LET a == reqs[r].alert
                ps == config.policies
                i == reqs[r].policy
            IN  /\ i \in 0 .. Len(ps)
                /\ i # 0 => /\ _matches_policy(a, ps[i])
                            /\ \A j \in 1 .. i - 1 : ~_matches_policy(a, ps[j])
                /\ i = 0 => \A j \in DOMAIN ps : ~_matches_policy(a, ps[j])

\* C1's case: the alert matches two different rules of the list and the
\* one declared first is selected.
C1_Witness ==
    /\ Arrived(1)
    /\ Len(config.policies) >= 2
    /\ config.policies[1] # config.policies[2]
    /\ reqs[1].policy = 1
    /\ _matches_policy(reqs[1].alert, config.policies[2])

\* The total order of the severity levels, least severe first.
SeverityOrder ==
    <<"debug", "informational", "notice", "warning",
      "error", "critical", "alert", "emergency">>

\* The place of a level in SeverityOrder.
SeverityRank(level) ==
    CHOOSE k \in DOMAIN SeverityOrder : SeverityOrder[k] = level

\* The upper-case spellings of the levels, in the same order.
SeveritySpelling ==
    <<"DEBUG", "INFORMATIONAL", "NOTICE", "WARNING",
      "ERROR", "CRITICAL", "ALERT", "EMERGENCY">>

\* The rule declares no pattern list.
PatternFree(rule) ==
    /\ rule.rule_patterns = <<>>
    /\ rule.container_patterns = <<>>
    /\ rule.image_patterns = <<>>
    /\ rule.exclude_containers = <<>>

\* C8: a rule without pattern lists matches an alert iff the alert's
\* severity is at or above the rule's minimum in the order debug <
\* informational < notice < warning < error < critical < alert <
\* emergency.  Read off the first rule of the list, which the matcher
\* selects iff it matches.
C8_SeverityThreshold ==
    \A r \in Requests :
        (/\ Arrived(r) /\ reqs[r].exit # "excluded"
         /\ PatternFree(config.policies[1])
         /\ \E k \in DOMAIN SeveritySpelling :
               SeveritySpelling[k] = reqs[r].alert.priority) =>
            LET k == CHOOSE k \in DOMAIN SeveritySpelling :
                        SeveritySpelling[k] = reqs[r].alert.priority
            IN  (reqs[r].policy = 1)
                    <=> (k >= SeverityRank(config.policies[1].priority_min))

\* C8's case: a warning alert against a pattern-free rule of minimum
\* warning (the boundary), which matches.
C8_Witness ==
    /\ Arrived(1)
    /\ PatternFree(config.policies[1])
    /\ config.policies[1].priority_min = "warning"
    /\ reqs[1].alert.priority = "WARNING"
    /\ reqs[1].policy = 1

\* The container-name condition as the claim C9 states it.
C9_ContainerCondition(a, rule) ==
    rule.container_patterns # <<>> =>
        (a.container_name # None
         /\ any_fnmatch(a.container_name, rule.container_patterns))

\* C9: a rule that declares container-name patterns does not match an
\* alert without a container name, and matches an alert with one only if
\* a pattern matches it: every rule of the list matches the alert iff its
\* other four conditions and this container condition hold.
C9_ContainerConstraint ==
    \A r \in Requests :
        Arrived(r) =>
            \A i \in DOMAIN config.policies :
                LET a == reqs[r].alert
                    rule == config.policies[i]
                IN  _matches_policy(a, rule)
                        <=> (/\ priority_ok(a, rule)
                             /\ rule_ok(a, rule)
                             /\ C9_ContainerCondition(a, rule)
                             /\ image_ok(a, rule)
                             /\ exclusion_ok(a, rule))

\* The image condition as the claim C10 states it.
C10_ImageCondition(a, rule) ==
    rule.image_patterns # <<>> =>
        (a.container_image # None
         /\ any_fnmatch(a.container_image, rule.image_patterns))

\* C10: a rule that declares image patterns does not match an alert
\* without an image reference, and matches an alert with one only if a
\* pattern matches it; an empty image pattern list is always satisfied.
C10_ImageConstraint ==
    \A r \in Requests :
        Arrived(r) =>
            \A i \in DOMAIN config.policies :
                LET a == reqs[r].alert
                    rule == config.policies[i]
                IN  _matches_policy(a, rule)
                        <=> (/\ priority_ok(a, rule)
                             /\ rule_ok(a, rule)
                             /\ container_ok(a, rule)
                             /\ C10_ImageCondition(a, rule)
                             /\ exclusion_ok(a, rule))


\* process_alert runs for request r in this step.
Step(r) == reqs[r].pc = "idle" /\ reqs'[r].pc # "idle"

\* The handler of request r returns or raises in this step.
Returned(r) == reqs[r].pc = "await" /\ reqs'[r].pc = "done"

\* Request r passed the cooldown check and reached _execute_action.
Dispatched(r) ==
    Arrived(r) /\ reqs[r].exit \notin {"excluded", "no_match", "cooldown"}

\* Requests q and r have the same (target id, rule name) key.
SameKey(q, r) ==
    /\ reqs[q].policy # 0
    /\ reqs[r].policy # 0
    /\ reqs[q].alert.container_id # None
    /\ reqs[q].alert.container_id = reqs[r].alert.container_id
    /\ PolicyOf(q).name = PolicyOf(r).name

\* C2: an alert whose container name matches a global exclusion pattern
\* is dropped before any rule is evaluated and nothing is dispatched:
\* process_alert returns with no rule matched, actions_skipped_excluded
\* is one higher, and alerts_matched, the executed and failed counters,
\* the cooldown map and every other request are as before.
C2_GlobalExclusion ==
    [][\A r \in Requests :
        (/\ Step(r)
         /\ reqs'[r].alert.container_name # None
         /\ any_fnmatch(reqs'[r].alert.container_name,
                        config.excluded_containers)) =>
            /\ reqs'[r].pc = "done"
            /\ reqs'[r].exit = "excluded"
            /\ reqs'[r].policy = 0
            /\ metrics'.actions_skipped_excluded
                  = metrics.actions_skipped_excluded + 1
            /\ metrics'.alerts_matched = metrics.alerts_matched
            /\ metrics'.actions_executed = metrics.actions_executed
            /\ metrics'.actions_failed = metrics.actions_failed
            /\ cooldowns' = cooldowns
            /\ \A q \in Requests \ {r} : reqs'[q] = reqs[q]]_vars

\* C2's case: a critical alert of an excluded container, which the first
\* rule would match, has been dropped and counted.
C2_Witness ==
    \E r \in Requests :
        /\ reqs[r].exit = "excluded"
        /\ reqs[r].alert.priority = "CRITICAL"
        /\ _matches_policy(reqs[r].alert, config.policies[1])
        /\ metrics.actions_skipped_excluded >= 1

\* C3: of two alerts with the same (target id, rule name) key that both
\* passed the cooldown check and reached dispatch, the later arrived at
\* least the rule's cooldown window after the earlier, whatever else was
\* in flight between them.
C3_CooldownAtomicity ==
    \A q, r \in Requests :
        (/\ q # r
         /\ Dispatched(q)
         /\ Dispatched(r)
         /\ SameKey(q, r)
         /\ reqs[q].at <= reqs[r].at) =>
            reqs[r].at - reqs[q].at >= PolicyOf(r).cooldown_seconds

\* C3's case: while the handler of an admitted alert is still in flight, a
\* second alert for the same key arrives within the window and is
\* suppressed.
C3_Witness ==
    \E q, r \in Requests :
        /\ q # r
        /\ reqs[q].pc = "await"
        /\ reqs[r].exit = "cooldown"
        /\ SameKey(q, r)
        /\ reqs[q].at <= reqs[r].at
        /\ reqs[r].at - reqs[q].at < PolicyOf(r).cooldown_seconds

\* C4: when the first two alerts of a run match the same rule of window
\* W > 0 for the same target, d apart, then with d < W exactly one of
\* them is dispatched and actions_skipped_cooldown is 1, and with d >= W
\* both are dispatched and actions_skipped_cooldown is 0.
C4_CooldownIdempotence ==
    (/\ Arrived(1)
     /\ Arrived(2)
     /\ \A r \in Requests \ {1, 2} : ~Arrived(r)
     /\ SameKey(1, 2)
     /\ reqs[1].policy = reqs[2].policy
     /\ PolicyOf(1).cooldown_seconds > 0) =>
        LET W == PolicyOf(1).cooldown_seconds
            d == reqs[2].at - reqs[1].at
            n == Cardinality({r \in {1, 2} : Dispatched(r)})
        IN  IF d < W
            THEN n = 1 /\ metrics.actions_skipped_cooldown = 1
            ELSE n = 2 /\ metrics.actions_skipped_cooldown = 0

\* C5: when the key of a matched, rate-limited alert has a recorded time
\* and less than the window has passed since, the alert is suppressed and
\* the cooldown map is unchanged; when the window or more has passed
\* (exactly the window included) the alert is allowed and its time
\* recorded.
C5_SuppressedKeepsState ==
    [][\A r \in Requests :
        (/\ Step(r)
         /\ reqs'[r].policy # 0
         /\ reqs'[r].alert.container_id # None
         /\ config.policies[reqs'[r].policy].cooldown_seconds > 0
         /\ cooldown_key(reqs'[r].alert, config.policies[reqs'[r].policy])
               \in DOMAIN cooldowns) =>
            LET rule == config.policies[reqs'[r].policy]
                key == cooldown_key(reqs'[r].alert, rule)
                elapsed == clock - cooldowns[key]
            IN  IF elapsed < rule.cooldown_seconds
                THEN reqs'[r].exit = "cooldown" /\ cooldowns' = cooldowns
                ELSE /\ reqs'[r].exit # "cooldown"
                     /\ key \in DOMAIN cooldowns'
                     /\ cooldowns'[key] = clock]_vars

\* C5's case: an alert was suppressed later than the recorded time of its
\* key, and the map still holds the earlier time.
C5_Witness ==
    \E r \in Requests :
        /\ reqs[r].exit = "cooldown"
        /\ cooldown_key(reqs[r].alert, PolicyOf(r)) \in DOMAIN cooldowns
        /\ cooldowns[cooldown_key(reqs[r].alert, PolicyOf(r))] < reqs[r].at

\* C6: a matched alert without a container id, or matching a rule whose
\* window is 0, is never suppressed and reaches dispatch, and the
\* cooldown map is left as it was, whatever it holds.
C6_CooldownBypass ==
    [][\A r \in Requests :
        (/\ Step(r)
         /\ reqs'[r].policy # 0
         /\ \/ reqs'[r].alert.container_id = None
            \/ config.policies[reqs'[r].policy].cooldown_seconds = 0) =>
            /\ reqs'[r].exit \notin {"excluded", "no_match", "cooldown"}
            /\ cooldowns' = cooldowns
            /\ metrics'.actions_skipped_cooldown
                  = metrics.actions_skipped_cooldown]_vars

\* C6's case: two alerts without a container id matched the same
\* rate-limited rule at the same time and both reached dispatch.
C6_Witness ==
    \E q, r \in Requests :
        /\ q # r
        /\ Dispatched(q)
        /\ Dispatched(r)
        /\ reqs[q].alert.container_id = None
        /\ reqs[r].alert.container_id = None
        /\ reqs[q].policy = reqs[r].policy
        /\ PolicyOf(q).cooldown_seconds > 0
        /\ reqs[q].at = reqs[r].at

\* C7: when a rate-limited alert is admitted and its handler invoked, the
\* time is already recorded under its key; the handler's return, failure
\* or exception leaves the cooldown map as it was; and an alert arriving
\* within the window of an admitted alert whose action failed or raised
\* is suppressed.
C7_AdmissionTimeUpdate ==
    [][/\ \A r \in Requests :
            (/\ Step(r)
             /\ reqs'[r].pc = "await"
             /\ reqs'[r].alert.container_id # None
             /\ config.policies[reqs'[r].policy].cooldown_seconds > 0) =>
                LET key == cooldown_key(reqs'[r].alert,
                                        config.policies[reqs'[r].policy])
                IN  key \in DOMAIN cooldowns' /\ cooldowns'[key] = clock
       /\ \A r \in Requests : Returned(r) => cooldowns' = cooldowns
       /\ \A q, r \in Requests :
            (/\ Step(r)
             /\ reqs[q].exit \in {"failed", "raised"}
             /\ reqs'[r].policy = reqs[q].policy
             /\ reqs'[r].alert.container_id # None
             /\ reqs'[r].alert.container_id = reqs[q].alert.container_id
             /\ clock - reqs[q].at < PolicyOf(q).cooldown_seconds) =>
                reqs'[r].exit = "cooldown"]_vars

\* C7's case: the action of an admitted alert raised, and a later alert
\* for the same key within the window was suppressed.
C7_Witness ==
    \E q, r \in Requests :
        /\ q # r
        /\ reqs[q].exit = "raised"
        /\ reqs[r].exit = "cooldown"
        /\ SameKey(q, r)
        /\ reqs[q].at < reqs[r].at
        /\ reqs[r].at - reqs[q].at < PolicyOf(r).cooldown_seconds


\* The rule-level exclusion as the claim C11 states it: the rule is
\* rejected iff the alert has a container name that one of the rule's
\* exclusion patterns matches.
C11_Rejected(a, rule) ==
    /\ a.container_name # None
    /\ \E i \in DOMAIN rule.exclude_containers :
          fnmatch(a.container_name, rule.exclude_containers[i])

\* C11: a rule whose exclusion patterns match the alert's container name
\* is rejected even when its other conditions hold, and the matcher goes
\* on to the next rule; an empty exclusion list, or an alert without a
\* container name, rejects nothing.
C11_RuleExclusion ==
    \A r \in Requests :
        (Arrived(r) /\ reqs[r].exit # "excluded") =>
            LET a == reqs[r].alert
                ps == config.policies
            IN  /\ \A i \in DOMAIN ps :
                      _matches_policy(a, ps[i])
                          <=> (/\ priority_ok(a, ps[i])
                               /\ rule_ok(a, ps[i])
                               /\ container_ok(a, ps[i])
                               /\ image_ok(a, ps[i])
                               /\ ~C11_Rejected(a, ps[i]))
                /\ \A i \in DOMAIN ps :
                      C11_Rejected(a, ps[i]) => reqs[r].policy # i
                /\ (/\ Len(ps) >= 2
                    /\ C11_Rejected(a, ps[1])
                    /\ _matches_policy(a, ps[2])) => reqs[r].policy = 2

\* C11's case: the first rule is rejected by its exclusion list alone and
\* the second rule is selected.
C11_Witness ==
    /\ Arrived(1)
    /\ Len(config.policies) >= 2
    /\ C11_Rejected(reqs[1].alert, config.policies[1])
    /\ priority_ok(reqs[1].alert, config.policies[1])
    /\ rule_ok(reqs[1].alert, config.policies[1])
    /\ container_ok(reqs[1].alert, config.policies[1])
    /\ image_ok(reqs[1].alert, config.policies[1])
    /\ reqs[1].policy = 2

\* The severity strings of the model that spell one of the eight levels,
\* in whatever case, with the level each spells.
C12_Spelled ==
    [p \in {SeveritySpelling[k] : k \in DOMAIN SeveritySpelling}
           \cup {"Critical"} |->
        IF p = "Critical" THEN "critical"
        ELSE SeverityOrder[CHOOSE k \in DOMAIN SeveritySpelling :
                                SeveritySpelling[k] = p]]

\* C12: an alert whose severity string spells none of the eight levels is
\* matched as a warning: a pattern-free rule matches it iff the rule's
\* minimum severity is warning or lower; a level spelled in another case
\* is matched as that level.  Read off the first rule of the list.
C12_UnknownSeverity ==
    \A r \in Requests :
        (/\ Arrived(r) /\ reqs[r].exit # "excluded"
         /\ PatternFree(config.policies[1])) =>
            LET p == reqs[r].alert.priority
                level == IF p \in DOMAIN C12_Spelled
                         THEN C12_Spelled[p] ELSE "warning"
            IN  (reqs[r].policy = 1)
                    <=> (SeverityRank(level)
                            >= SeverityRank(config.policies[1].priority_min))

\* C12's case: an alert of severity "BOGUS" matched a pattern-free rule of
\* minimum severity warning.
C12_Witness ==
    /\ Arrived(1)
    /\ reqs[1].alert.priority = "BOGUS"
    /\ PatternFree(config.policies[1])
    /\ config.policies[1].priority_min = "warning"
    /\ reqs[1].policy = 1

\* C13: an alert without a container name is never excluded by the
\* global list, whatever its patterns: actions_skipped_excluded is as
\* before and the alert is matched against the rules (a rule is selected
\* iff one matches).
C13_NamelessNeverExcluded ==
    [][\A r \in Requests :
        (Step(r) /\ reqs'[r].alert.container_name = None) =>
            /\ reqs'[r].exit # "excluded"
            /\ metrics'.actions_skipped_excluded
                  = metrics.actions_skipped_excluded
            /\ (reqs'[r].policy # 0)
                  <=> \E i \in DOMAIN config.policies :
                         _matches_policy(reqs'[r].alert, config.policies[i])
            /\ (reqs'[r].policy = 0) <=> (reqs'[r].exit = "no_match")]_vars

\* C13's case: the exclusion list holds '*', an alert without a container
\* name arrived, and a rule was matched for it.
C13_Witness ==
    /\ \E i \in DOMAIN config.excluded_containers :
          config.excluded_containers[i] = Str1("*")
    /\ Arrived(1)
    /\ reqs[1].alert.container_name = None
    /\ reqs[1].policy # 0
    /\ metrics.actions_skipped_excluded = 0


\* The alert of request r, arriving in this step, is not excluded,
\* matches a rule and is admitted by the cooldown check.
Admitted(r) ==
    /\ Step(r)
    /\ ~_is_excluded(reqs'[r].alert, config.excluded_containers)
    /\ _find_matching_policy(reqs'[r].alert, config.policies) # 0
    /\ cooldown_allowed(reqs'[r].alert,
                        config.policies[_find_matching_policy(
                            reqs'[r].alert, config.policies)],
                        cooldowns, clock)

\* The rule matched for the alert with which request r arrives.
NewPolicyOf(r) == config.policies[reqs'[r].policy]

\* C14: with dry_run set no handler is ever invoked (no request ever
\* waits for one and none returns from one), every alert that is not
\* excluded, matches a rule and is admitted by the cooldown check adds
\* exactly 1 to the executed count of its rule's action kind and leaves
\* the other kinds' counts alone, and actions_failed stays 0.
C14_DryRun ==
    [][config.dry_run =>
        /\ \A r \in Requests :
              /\ reqs'[r].pc # "await"
              /\ ~Returned(r)
              /\ Admitted(r) =>
                    /\ reqs'[r].pc = "done"
                    /\ metrics'.actions_executed =
                          [metrics.actions_executed
                              EXCEPT ![NewPolicyOf(r).action] = @ + 1]
        /\ metrics'.actions_failed = 0]_vars

\* C14's case: dry run with both handlers registered; a webhook rule was
\* matched and admitted, counted as executed, and nothing was invoked.
C14_Witness ==
    /\ config.dry_run
    /\ actions = {"alert", "webhook"}
    /\ Arrived(1)
    /\ reqs[1].policy # 0
    /\ PolicyOf(1).action = "webhook"
    /\ reqs[1].pc = "done"
    /\ metrics.actions_executed["webhook"] = 1
    /\ metrics.actions_failed = 0

\* C15: in live mode an admitted alert whose action kind has a handler
\* invokes it, changing neither counter yet; when the handler ends,
\* exactly one counter changes, by exactly 1: the executed count of the
\* rule's action kind on success, actions_failed on a returned failure or
\* an exception; the executed counts of the other kinds are unchanged.
C15_OutcomeAccounting ==
    [][\A r \in Requests :
        /\ (/\ Admitted(r) /\ ~config.dry_run
            /\ NewPolicyOf(r).action \in actions) =>
                /\ reqs'[r].pc = "await"
                /\ metrics'.actions_executed = metrics.actions_executed
                /\ metrics'.actions_failed = metrics.actions_failed
        /\ Returned(r) =>
              /\ reqs'[r].exit \in {"executed", "failed", "raised"}
              /\ reqs'[r].exit = "executed" =>
                    metrics' = [metrics EXCEPT
                        !.actions_executed[PolicyOf(r).action] = @ + 1]
              /\ reqs'[r].exit \in {"failed", "raised"} =>
                    metrics' = [metrics EXCEPT !.actions_failed = @ + 1]]_vars

\* C15's case: one webhook call succeeded and another returned failure.
C15_Witness ==
    /\ ~config.dry_run
    /\ reqs[1].exit = "executed"
    /\ reqs[2].exit = "failed"
    /\ PolicyOf(1).action = "webhook"
    /\ metrics.actions_executed["webhook"] = 1
    /\ metrics.actions_executed["alert"] = 0
    /\ metrics.actions_failed = 1

\* C16: when a handler raises, process_alert still completes, the only
\* change to the engine is actions_failed one higher, which is the state
\* a returned failure leaves: the cooldown map, the handlers, the other
\* counters, the clock and every other request are as before, so later
\* alerts are processed as after a failure.
C16_FailureIsolation ==
    [][\A r \in Requests :
        (Returned(r) /\ reqs'[r].exit = "raised") =>
            /\ reqs'[r].pc = "done"
            /\ metrics' = [metrics EXCEPT !.actions_failed = @ + 1]
            /\ cooldowns' = cooldowns
            /\ actions' = actions
            /\ config' = config
            /\ clock' = clock
            /\ \A q \in Requests \ {r} : reqs'[q] = reqs[q]
            /\ reqs'[r].alert = reqs[r].alert
            /\ reqs'[r].policy = reqs[r].policy]_vars

\* C16's case: the handler of the first request raised, counted once, and
\* the second request was processed and its action executed.
C16_Witness ==
    /\ reqs[1].exit = "raised"
    /\ reqs[2].exit = "executed"
    /\ metrics.actions_failed = 1
    /\ metrics.alerts_received = 2
    /\ metrics.alerts_matched = 2

\* C17: in live mode, when the rule of an admitted alert names an action
\* kind without a registered handler (every kind before set_runtime), no
\* handler is invoked and process_alert returns: neither an executed
\* count nor actions_failed changes, and only alerts_received and
\* alerts_matched are one higher.
C17_UnregisteredKind ==
    [][\A r \in Requests :
        (/\ Admitted(r) /\ ~config.dry_run
         /\ NewPolicyOf(r).action \notin actions) =>
            /\ reqs'[r].pc = "done"
            /\ reqs'[r].exit = "no_handler"
            /\ metrics' = [metrics EXCEPT !.alerts_received = @ + 1,
                                          !.alerts_matched = @ + 1]
            /\ actions' = actions
            /\ \A q \in Requests \ {r} : reqs'[q] = reqs[q]]_vars

\* C17's case: the first alert found no handler and was dropped without a
\* count; after set_runtime the second alert's action was executed.
C17_Witness ==
    /\ reqs[1].exit = "no_handler"
    /\ reqs[2].exit = "executed"
    /\ metrics.actions_failed = 0
    /\ metrics.actions_executed["alert"]
          + metrics.actions_executed["webhook"] = 1
    /\ metrics.alerts_matched = 2

\* C19: an alert that is not excluded and matches no rule adds 1 to
\* alerts_received and changes nothing else: alerts_matched, the skipped
\* counters, the executed counts, actions_failed and the cooldown map are
\* as before and no handler is invoked.
C19_NoMatchFrame ==
    [][\A r \in Requests :
        (/\ Step(r)
         /\ ~_is_excluded(reqs'[r].alert, config.excluded_containers)
         /\ \A i \in DOMAIN config.policies :
               ~_matches_policy(reqs'[r].alert, config.policies[i])) =>
            /\ metrics' = [metrics EXCEPT !.alerts_received = @ + 1]
            /\ cooldowns' = cooldowns
            /\ reqs'[r].pc = "done"
            /\ reqs'[r].policy = 0
            /\ \A q \in Requests \ {r} : reqs'[q] = reqs[q]
            /\ UNCHANGED <<config, actions, clock>>]_vars

\* C19's case: a notice alert below every rule's minimum severity arrived
\* after an earlier alert had been matched and its cooldown recorded.
C19_Witness ==
    /\ reqs[2].exit = "no_match"
    /\ reqs[2].alert.priority = "NOTICE"
    /\ reqs[1].policy # 0
    /\ DOMAIN cooldowns # {}
    /\ metrics.alerts_received = 2
    /\ metrics.alerts_matched = 1


\* The configuration file and the alert of scenario A: the rule "crit",
\* minimum severity critical, rule pattern "X - *", action kill, cooldown
\* 0; the alert of rule "X - Reverse Shell", critical, container "web-1".
C18_ScenarioA ==
    [dry_run |-> FALSE,
     policies |-> <<Rule(<<"c", "r", "i", "t">>, "critical",
                         << <<"X", " ", "-", " ", "*">> >>,
                         <<>>, <<>>, <<>>, "kill", 0)>>,
     global_webhook_url |-> None,
     excluded_containers |-> <<>>]
C18_AlertA ==
    Alert(<<"X", " ", "-", " ", "R", "e", "v", "e", "r", "s", "e", " ",
            "S", "h", "e", "l", "l">>,
          "CRITICAL",
          <<"w", "e", "b", "-", "1">>, <<"w", "e", "b", "-", "1">>, None)

\* C18: a rule may declare the kill action kind, and in live mode the
\* alert of scenario A matches the rule "crit", the kill handler is
\* invoked once and executed["kill"] is 1: the alert matches the rule,
\* the configuration of scenario A loads, and kill is among the handlers
\* that set_runtime registers.
C18_KillDispatch ==
    /\ _find_matching_policy(C18_AlertA, C18_ScenarioA.policies) = 1
    /\ load_config(C18_ScenarioA) = {C18_ScenarioA}
    /\ actions # {} => "kill" \in actions


\* The numbers of the metrics m, one per counter.
C20_Counters(m) ==
    [f \in {"alerts_received", "alerts_matched", "actions_skipped_cooldown",
            "actions_skipped_excluded", "actions_failed"} \cup ActionType |->
        IF f \in ActionType THEN m.actions_executed[f] ELSE m[f]]

\* C20: no counter ever decreases, whatever is called; get_metrics
\* changes no counter and returns the counters' current values, and a
\* caller writing into the dict it got changes no counter of the engine.
C20_MetricsMonotone ==
    [][/\ \A f \in DOMAIN C20_Counters(metrics) :
             C20_Counters(metrics')[f] >= C20_Counters(metrics)[f]
       /\ snapshot' # snapshot => metrics' = metrics
       /\ (snapshot' # snapshot /\ ~snapshot'.touched) =>
             /\ snapshot'.value.actions_executed.items
                   = metrics.actions_executed
             /\ \A f \in DOMAIN C20_Counters(metrics) \ ActionType :
                   snapshot'.value[f] = metrics[f]]_vars

\* C20's case: a caller reset the webhook count and alerts_received in
\* the dict it got, and the engine's counters still stand.
C20_Witness ==
    /\ snapshot.held
    /\ snapshot.touched
    /\ snapshot.value.actions_executed.items["webhook"] = 0
    /\ snapshot.value.alerts_received = 0
    /\ metrics.actions_executed["webhook"] >= 1
    /\ metrics.alerts_received >= 1


\* C29: when the first rule an alert matches is in cooldown for the
\* alert's target, the alert is dropped there: alerts_matched and
\* actions_skipped_cooldown are one higher (with alerts_received), no
\* handler is invoked, the cooldown map is unchanged, and no later rule
\* is tried, even one that matches and is not in cooldown.
C29_CooldownShortCircuit ==
    [][\A r \in Requests :
        LET a == reqs'[r].alert
            i == _find_matching_policy(a, config.policies)
        IN  (/\ Step(r)
             /\ ~_is_excluded(a, config.excluded_containers)
             /\ i # 0
             /\ ~cooldown_allowed(a, config.policies[i], cooldowns, clock))
            =>
                /\ reqs'[r].pc = "done"
                /\ reqs'[r].exit = "cooldown"
                /\ reqs'[r].policy = i
                /\ metrics' = [metrics EXCEPT
                                  !.alerts_received = @ + 1,
                                  !.alerts_matched = @ + 1,
                                  !.actions_skipped_cooldown = @ + 1]
                /\ cooldowns' = cooldowns]_vars

\* C29's case: an alert was suppressed by the cooldown of the rule it
\* matched first while a later rule matches it and is not in cooldown.
C29_Witness ==
    \E r \in Requests :
        /\ Arrived(r)
        /\ reqs[r].exit = "cooldown"
        /\ \E j \in DOMAIN config.policies :
              /\ j > reqs[r].policy
              /\ _matches_policy(reqs[r].alert, config.policies[j])
              /\ cooldown_allowed(reqs[r].alert, config.policies[j],
                                  cooldowns, reqs[r].at)
        /\ metrics.actions_skipped_cooldown >= 1
        /\ metrics.actions_executed["webhook"] = 0

\* C30: the first alert for a key that has no entry in the cooldown map
\* is allowed and creates the entry with the current time, whatever the
\* clock reads and whatever the rule's window.
C30_FirstActionPermitted ==
    [][\A r \in Requests :
        LET a == reqs'[r].alert
            i == _find_matching_policy(a, config.policies)
        IN  (/\ Step(r)
             /\ ~_is_excluded(a, config.excluded_containers)
             /\ i # 0
             /\ a.container_id # None
             /\ config.policies[i].cooldown_seconds > 0
             /\ cooldown_key(a, config.policies[i]) \notin DOMAIN cooldowns)
            =>
                /\ reqs'[r].exit # "cooldown"
                /\ cooldown_key(a, config.policies[i]) \in DOMAIN cooldowns'
                /\ cooldowns'[cooldown_key(a, config.policies[i])] = clock
       ]_vars


\* Request r was permitted by a cooldown check that consulted the map:
\* it has a container id and its rule a window.
C28_Permitted(r) ==
    /\ Dispatched(r)
    /\ reqs[r].alert.container_id # None
    /\ PolicyOf(r).cooldown_seconds > 0

\* The key of request r.
C28_Key(r) == cooldown_key(reqs[r].alert, PolicyOf(r))

\* The map holds exactly the keys of the permitted requests, each with
\* the time of the latest of them.
C28_MapIsHistory ==
    /\ DOMAIN cooldowns =
          {C28_Key(r) : r \in {q \in Requests : C28_Permitted(q)}}
    /\ \A r \in Requests :
          C28_Permitted(r) =>
              /\ cooldowns[C28_Key(r)] >= reqs[r].at
              /\ \E q \in Requests :
                    /\ C28_Permitted(q)
                    /\ C28_Key(q) = C28_Key(r)
                    /\ cooldowns[C28_Key(r)] = reqs[q].at

\* C28: the cooldown map starts empty; a key is in it iff an alert of
\* that container id and rule name (window > 0) was permitted, and its
\* value is the time of the latest such alert; no step removes a key, and
\* the only step that writes the map is the arrival of an alert that the
\* cooldown check permits, which writes that alert's key alone.
C28_CooldownLifecycle ==
    /\ cooldowns = <<>>
    /\ [][/\ C28_MapIsHistory'
          /\ DOMAIN cooldowns \subseteq DOMAIN cooldowns'
          /\ cooldowns' # cooldowns =>
                \E r \in Requests :
                    /\ Step(r)
                    /\ C28_Permitted(r)'
                    /\ cooldowns' =
                          [k \in DOMAIN cooldowns \cup {C28_Key(r)'} |->
                              IF k = C28_Key(r)' THEN clock
                              ELSE cooldowns[k]]]_vars

\* C28's case: two keys are in the map, recorded at different times.
C28_Witness ==
    \E k1, k2 \in DOMAIN cooldowns :
        /\ cooldowns[k1] < cooldowns[k2]
        /\ \E q, r \in Requests :
              /\ C28_Permitted(q) /\ C28_Key(q) = k1
              /\ C28_Permitted(r) /\ C28_Key(r) = k2


\* The arrived requests that left process_alert by one of the exits e.
C22_Exit(e) == {r \in Requests : Arrived(r) /\ reqs[r].exit \in e}

\* C22: under every interleaving of arrivals and handler returns no
\* update is lost: alerts_received is the number of alerts that arrived
\* and every other counter the number of alerts that took its exit (so
\* too once all have completed), and the cooldown map holds for every
\* permitted alert's key a time not earlier than that alert's.
C22_NoLostUpdate ==
    /\ metrics.alerts_received = Cardinality({r \in Requests : Arrived(r)})
    /\ metrics.actions_skipped_excluded = Cardinality(C22_Exit({"excluded"}))
    /\ metrics.alerts_matched =
          Cardinality({r \in Requests : Arrived(r) /\ reqs[r].policy # 0})
    /\ metrics.actions_skipped_cooldown = Cardinality(C22_Exit({"cooldown"}))
    /\ \A k \in ActionType :
          metrics.actions_executed[k] =
              Cardinality({r \in C22_Exit({"executed", "dry_run"}) :
                              PolicyOf(r).action = k})
    /\ metrics.actions_failed = Cardinality(C22_Exit({"failed", "raised"}))
    /\ \A r \in Requests :
          (/\ Dispatched(r)
           /\ reqs[r].alert.container_id # None
           /\ PolicyOf(r).cooldown_seconds > 0) =>
              LET key == cooldown_key(reqs[r].alert, PolicyOf(r)) IN
                  /\ key \in DOMAIN cooldowns
                  /\ cooldowns[key] >= reqs[r].at

\* C22's case: the handlers of two alerts of the same action kind were
\* invoked and returned with success, in any order of the four steps.
C22_Witness ==
    /\ reqs[1].exit = "executed"
    /\ reqs[2].exit = "executed"
    /\ PolicyOf(1).action = PolicyOf(2).action
    /\ metrics.actions_executed[PolicyOf(1).action] = 2
    /\ metrics.alerts_received = 2

\* C25: a call of process_alert invokes a handler at most once, at its
\* arrival step: a request that waits for its handler next returns, a
\* request that has returned stays so, and after a failure or an
\* exception the request is done, not invoked again, with the handlers
\* and every other request as they were.
C25_AtMostOnce ==
    [][\A r \in Requests :
        /\ reqs[r].pc = "done" => reqs'[r] = reqs[r]
        /\ reqs[r].pc = "await" =>
              \/ reqs'[r] = reqs[r]
              \/ reqs'[r].pc = "done"
        /\ reqs'[r].pc = "await" => reqs[r].pc \in {"idle", "await"}
        /\ (Returned(r) \/ (reqs[r].pc = "await" /\ reqs'[r] # reqs[r])) =>
              /\ reqs'[r].pc = "done"
              /\ actions' = actions
              /\ \A q \in Requests \ {r} : reqs'[q] = reqs[q]]_vars

\* C25's case: the first alert's handler returned failure and was not
\* invoked again; the second alert was processed after it.
C25_Witness ==
    /\ reqs[1].exit = "failed"
    /\ reqs[1].pc = "done"
    /\ Arrived(2)
    /\ reqs[2].at > reqs[1].at
    /\ reqs[2].pc = "done"
    /\ metrics.actions_failed = 1


\* C26: an alert is suppressed by cooldown only when an earlier alert of
\* the same container id and the same rule name was permitted less than
\* the window before it; what was permitted for another (container id,
\* rule name) pair never suppresses it.
C26_PerPairCooldown ==
    \A r \in Requests :
        (Arrived(r) /\ reqs[r].exit = "cooldown") =>
            \E q \in Requests \ {r} :
                /\ Dispatched(q)
                /\ reqs[q].alert.container_id = reqs[r].alert.container_id
                /\ PolicyOf(q).name = PolicyOf(r).name
                /\ reqs[q].at <= reqs[r].at
                /\ reqs[r].at - reqs[q].at < PolicyOf(r).cooldown_seconds


\* The numbers in a dict that get_metrics returned, one per counter.
C23_Values(v) ==
    [f \in {"alerts_received", "alerts_matched", "actions_skipped_cooldown",
            "actions_skipped_excluded", "actions_failed"} \cup ActionType |->
        IF f \in ActionType THEN v.actions_executed.items[f] ELSE v[f]]

\* C23: what get_metrics returns is the value of every counter at one
\* instant, that of the call, whether or not handlers are in flight; a
\* dict held untouched since an earlier call shows no counter above its
\* present value.
C23_ConsistentSnapshot ==
    [][/\ (snapshot' # snapshot /\ ~snapshot'.touched) =>
             /\ snapshot'.held
             /\ C23_Values(snapshot'.value) = C20_Counters(metrics)
             /\ C23_Values(snapshot'.value) = C20_Counters(metrics')
       /\ (snapshot'.held /\ ~snapshot'.touched) =>
             \A f \in DOMAIN C20_Counters(metrics') :
                 C23_Values(snapshot'.value)[f] <= C20_Counters(metrics')[f]
      ]_vars

\* C23's case: get_metrics was called while a handler was in flight and
\* after both skipped counters had moved apart; an alert arrived since.
C23_Witness ==
    /\ snapshot.held
    /\ ~snapshot.touched
    /\ \E r \in Requests : reqs[r].pc = "await"
    /\ snapshot.value.alerts_received = 1
    /\ metrics.alerts_received = 2
    /\ snapshot.value.alerts_matched = 1
    /\ metrics.actions_skipped_excluded = 1


\* C21: a daemon constructed on a configuration without rules has, in
\* this order, a rule of window 0 and minimum severity critical with rule
\* patterns, a rule of window 30 and minimum severity error, and a
\* pattern-free rule of window 60 and minimum severity warning; under
\* these every alert that is not excluded matches a rule iff its severity
\* is warning or above; a rule list that was not empty is kept as given.
C21_DefaultRuleSet ==
    [][/\ (~daemon.constructed /\ daemon'.constructed /\ daemon.given = <<>>)
             => /\ Len(config'.policies) = 3
                /\ config'.policies[1].cooldown_seconds = 0
                /\ config'.policies[1].priority_min = "critical"
                /\ config'.policies[1].rule_patterns # <<>>
                /\ config'.policies[2].cooldown_seconds = 30
                /\ config'.policies[2].priority_min = "error"
                /\ config'.policies[3].cooldown_seconds = 60
                /\ config'.policies[3].priority_min = "warning"
                /\ PatternFree(config'.policies[3])
       /\ daemon'.given # <<>> => config'.policies = daemon'.given
       /\ daemon'.given = daemon.given
       /\ \A r \in Requests :
             (/\ Step(r)
              /\ daemon.given = <<>>
              /\ ~_is_excluded(reqs'[r].alert, config.excluded_containers)
              /\ reqs'[r].alert.priority \in DOMAIN C12_Spelled) =>
                 ((reqs'[r].policy # 0)
                     <=> SeverityRank(C12_Spelled[reqs'[r].alert.priority])
                            >= SeverityRank("warning"))]_vars

\* C21's case: the daemon was given no rules, and an error alert of a
\* rule that the second default rule names was matched by that rule.
C21_Witness ==
    /\ daemon.constructed
    /\ daemon.given = <<>>
    /\ Arrived(1)
    /\ reqs[1].alert.priority = "ERROR"
    /\ reqs[1].policy = 2
    /\ PolicyOf(1).cooldown_seconds = 30

\* C27: the webhook handler posts to the rule's own destination when it
\* has one and otherwise to the process-wide default; with neither it
\* returns failure without a request; a response outside 2xx, a timeout
\* and any exception of the delivery are returned as failure, a 2xx
\* response as success, and nothing is raised to _execute_action.
C27_HandlerEnds(r) ==
    /\ reqs[r].pc = "await"
    /\ reqs'[r].pc = "done"
    /\ config.policies[reqs[r].policy].action = "webhook"
C27_Notify ==
    [][\A r \in Requests :
         C27_HandlerEnds(r) =>
            LET own == config.policies[reqs[r].policy].webhook_url
                dflt == config.global_webhook_url
            IN  /\ own # None => reqs'[r].sent_to = own
                /\ own = None /\ dflt # None => reqs'[r].sent_to = dflt
                /\ own = None /\ dflt = None =>
                      /\ reqs'[r].sent_to = None
                      /\ reqs'[r].delivery = "none"
                      /\ reqs'[r].exit = "failed"
                /\ own # None \/ dflt # None =>
                      reqs'[r].delivery \in Deliveries
                /\ reqs'[r].delivery \in {"non2xx", "timeout", "error"} =>
                      reqs'[r].exit = "failed"
                /\ reqs'[r].delivery = "2xx" => reqs'[r].exit = "executed"
                /\ reqs'[r].exit # "raised"
                /\ reqs'[r].exit = "failed" =>
                      metrics'.actions_failed = metrics.actions_failed + 1
    ]_vars

\* A rule with its own destination "u", a default "g" configured too, was
\* notified at "u" and the delivery timed out; another request of the
\* same process ended in failure as well.
C27_Witness ==
    /\ config.global_webhook_url = Str1("g")
    /\ config.policies[1].webhook_url = Str1("u")
    /\ reqs[1].pc = "done"
    /\ reqs[1].sent_to = Str1("u")
    /\ reqs[1].delivery = "timeout"
    /\ reqs[1].exit = "failed"
    /\ reqs[2].delivery = "2xx"
    /\ reqs[2].exit = "executed"
    /\ metrics.actions_failed = 1

\* C24: POST /falco answers 200 for every payload that parses into an alert,
\* whatever the way out of the engine (excluded, no match, cooldown, the
\* handler's failure or exception, no handler), and answers an error only
\* for the payloads that fail to parse.
C24_Acknowledged ==
    \A r \in Requests :
        reqs[r].pc = "done" =>
            /\ reqs[r].exit # "parse_error" => reqs[r].status = 200
            /\ reqs[r].exit = "parse_error" => reqs[r].status = 500

\* The executed counts summed over the action kinds.
C31_Executed ==
    metrics.actions_executed["alert"] + metrics.actions_executed["webhook"]

\* The alerts dropped because their action kind had no handler.
C31_Dropped == Cardinality(C22_Exit({"no_handler"}))

\* C31: in every reachable state alerts_received is at least
\* alerts_matched plus actions_skipped_excluded, and alerts_matched is at
\* least actions_skipped_cooldown plus the executed counts plus
\* actions_failed; when no alert waits for its handler, alerts_matched
\* is exactly that sum plus the number of alerts dropped for an
\* unregistered action kind.
C31_CounterAccounting ==
    /\ metrics.alerts_received >=
          metrics.alerts_matched + metrics.actions_skipped_excluded
    /\ metrics.alerts_matched >=
          metrics.actions_skipped_cooldown + C31_Executed
            + metrics.actions_failed
    /\ (\A r \in Requests : reqs[r].pc # "await") =>
          metrics.alerts_matched =
              metrics.actions_skipped_cooldown + C31_Executed
                + metrics.actions_failed + C31_Dropped

\* C31's case: nothing in flight after one alert was dropped for want of
\* a handler and the next one's handler returned failure: two matched,
\* one failed, none executed or skipped.
C31_Witness ==
    /\ \A r \in Requests : reqs[r].pc = "done"
    /\ reqs[1].exit = "no_handler"
    /\ reqs[2].exit = "failed"
    /\ metrics.alerts_matched = 2
    /\ metrics.actions_failed = 1
    /\ C31_Executed = 0
    /\ metrics.actions_skipped_cooldown = 0

\* Request q was dropped for want of a handler, and the alert with which
\* request r arrives in this step has q's container id and matched rule
\* and comes less than the rule's window after q's.
C33_AfterDrop(q, r) ==
    /\ Step(r)
    /\ reqs[q].exit = "no_handler"
    /\ reqs'[r].policy = reqs[q].policy
    /\ reqs[q].alert.container_id # None
    /\ reqs'[r].alert.container_id = reqs[q].alert.container_id
    /\ clock - reqs[q].at < PolicyOf(q).cooldown_seconds

\* C33: in live mode an admitted alert with a container id whose action
\* kind has no handler is dropped with its cooldown entry written, at the
\* time of the alert when the rule has a window; the entry stays, and an
\* alert for the same container id and rule within the window is counted
\* in actions_skipped_cooldown and returns without a handler invoked.
C33_DropArmsCooldown ==
    [][\A r \in Requests :
        /\ (/\ Admitted(r) /\ ~config.dry_run
            /\ NewPolicyOf(r).action \notin actions
            /\ NewPolicyOf(r).cooldown_seconds > 0
            /\ reqs'[r].alert.container_id # None) =>
                /\ reqs'[r].exit = "no_handler"
                /\ cooldown_key(reqs'[r].alert, NewPolicyOf(r))
                      \in DOMAIN cooldowns'
                /\ cooldowns'[cooldown_key(reqs'[r].alert, NewPolicyOf(r))]
                      = clock
        /\ \A q \in Requests \ {r} :
              C33_AfterDrop(q, r) =>
                /\ cooldown_key(reqs[q].alert, PolicyOf(q))
                      \in DOMAIN cooldowns
                /\ reqs'[r].pc = "done"
                /\ reqs'[r].exit = "cooldown"
                /\ metrics'.actions_skipped_cooldown =
                      metrics.actions_skipped_cooldown + 1
                /\ metrics'.actions_executed = metrics.actions_executed
                /\ metrics'.actions_failed = metrics.actions_failed
    ]_vars

\* C33's case: in live mode the first alert, arriving once the clock had
\* passed the rule's window, was dropped for want of a handler and the
\* second, for the same container and rule one second later, was skipped
\* by cooldown; no action was executed or failed.
C33_Witness ==
    /\ ~config.dry_run
    /\ reqs[1].exit = "no_handler"
    /\ reqs[2].exit = "cooldown"
    /\ SameKey(1, 2)
    /\ reqs[1].policy = reqs[2].policy
    /\ reqs[2].at = reqs[1].at + 1
    /\ reqs[1].at >= PolicyOf(1).cooldown_seconds
    /\ metrics.actions_skipped_cooldown = 1
    /\ C31_Executed = 0
    /\ metrics.actions_failed = 0

\* The executed counts of the dry-run engine summed over the action kinds.
C32_TwinExecuted ==
    twin.metrics.actions_executed["alert"]
        + twin.metrics.actions_executed["webhook"]

\* C32: a dry-run engine and a live engine with the same rules and
\* exclusions, given the same alerts at the same times, agree after every
\* alert on alerts_received, alerts_matched, actions_skipped_excluded,
\* actions_skipped_cooldown and the whole cooldown map; the dry-run
\* engine counts every admitted alert as executed and none as failed,
\* where the live one counts what its handlers returned.
C32_SameDecisions ==
    /\ twin.metrics.alerts_received = metrics.alerts_received
    /\ twin.metrics.alerts_matched = metrics.alerts_matched
    /\ twin.metrics.actions_skipped_excluded =
          metrics.actions_skipped_excluded
    /\ twin.metrics.actions_skipped_cooldown =
          metrics.actions_skipped_cooldown
    /\ twin.cooldowns = cooldowns
    /\ twin.metrics.actions_failed = 0
    /\ C32_TwinExecuted =
          metrics.alerts_matched - metrics.actions_skipped_cooldown

\* C32's case: the live engine's webhook handler failed for the first
\* alert and its alert handler succeeded for the second, which armed a
\* cooldown; the dry-run engine counted both as executed and none as
\* failed, and both engines hold the same cooldown entry.
C32_Witness ==
    /\ reqs[1].exit = "failed"
    /\ reqs[2].exit = "executed"
    /\ metrics.actions_failed = 1
    /\ C31_Executed = 1
    /\ C32_TwinExecuted = 2
    /\ twin.metrics.actions_failed = 0
    /\ twin.cooldowns # <<>>
    /\ twin.cooldowns = cooldowns

\* C34: for any number of shutdown() calls, one started by the signal
\* handler while another still awaits the cleanup included, the cleanup
\* of the HTTP runner is executed at most once, the shutdown event is set
\* once a call has completed, and run() has returned only after a
\* shutdown completed.
C34_ShutdownIdempotent ==
    /\ daemon.cleanups <= 1
    /\ (\E c \in Calls : daemon.shutdowns[c] = "done") => daemon.event
    /\ daemon.run = "returned" =>
          \E c \in Calls : daemon.shutdowns[c] = "done"

====
